---- MODULE Spec2Model ----
(***************************************************************************)
(* Lamport one-time signatures with GF(256) Shamir sharing of the signing  *)
(* key (crate lamport_signature_plus).  The model follows src/src/signing.rs*)
(* and src/src/multi_vec.rs; the digest capability, the verifying key and  *)
(* the signature combiner are not among the sources and follow the         *)
(* natural-language specification.                                         *)
(***************************************************************************)
EXTENDS Integers, Sequences, FiniteSets, TLC

(* ------------------------------ bounds -------------------------------- *)

\* Messages are byte strings of at most MaxMsgLen bytes.
MaxMsgLen == 1

\* split is called with at most MaxShares shares (and thresholds up to it).
MaxShares == 3

\* Number of tasks that call sign on the one shared key.
NumTasks == 3

(* ----------------------- the digest capability ------------------------ *)

\* Output size of the model digest in bytes (Y); B = 8 * Y bits.
DigestBytes == 1

digest_size_in_bits == 8 * DigestBytes

RECURSIVE Absorb(_, _)
Absorb(h, input) ==
    IF input = <<>> THEN h
    ELSE Absorb((h * 31 + Head(input) + 7) % 256, Tail(input))

\* A deterministic function of the input bytes with DigestBytes output bytes.
digest(input) ==
    LET h == Absorb(99, input)
    IN  [k \in 1..DigestBytes |-> ((h + 59 * k) * 113 + 41 * k) % 256]

\* The caller's generator: a stream of bytes; its state is the number of
\* the last byte drawn, counted from the seed.
RngSkip(s, n) == s + n

\* The i-th byte drawn from state s (i >= 1).
RngByte(s, i) ==
    LET c == s + i
        v == c * c * 5 + c * 77 + 59
    IN  ((v \div 8) + v) % 256

(* --------------------------- byte matrices ---------------------------- *)

Product(axes) == axes[1] * axes[2]

MultiVecFill(axes, value) ==
    [data |-> [i \in 1..Product(axes) |-> value], axes |-> axes]

MultiVecLen(m) == Len(m.data)

MultiVecEq(a, b) == a.data = b.data /\ a.axes = b.axes

\* Row i (from 0) of a two-dimensional matrix.
MultiVecRow(m, i) ==
    LET b == i * m.axes[2]
        e == b + m.axes[2]
    IN  SubSeq(m.data, b + 1, e)

\* A fresh [B, Y] matrix of bytes drawn from the generator in state s.
DigestRandom(s) ==
    [data |-> [i \in 1..(digest_size_in_bits * DigestBytes) |-> RngByte(s, i)],
     axes |-> <<digest_size_in_bits, DigestBytes>>]

\* Clone for MultiVec: the buffer and the axes copied.
MultiVecClone(m) == [data |-> m.data, axes |-> m.axes]

\* MultiVec::new stops the program unless every axis is positive.
MultiVecNewPanics(axes) == ~(\A k \in 1..Len(axes) : axes[k] > 0)

\* MultiVec::new: a buffer with room for the product of the axes and no
\* element in it.
MultiVecNew(axes) == [data |-> <<>>, axes |-> axes]

\* The functions of the flat index handed to fill_fn: i |-> fn[1]*i + fn[2].
FillFunction(fn, i) == (fn[1] * i + fn[2]) % 256

\* MultiVec::fill_fn: element i (from 0) is f(i).
MultiVecFillFn(axes, fn) ==
    [data |-> [i \in 1..Product(axes) |-> FillFunction(fn, i - 1)],
     axes |-> axes]

\* MultiVec::iso stops the program unless the products agree.
MultiVecIsoPanics(m, new_axes) == Product(m.axes) # Product(new_axes)

\* MultiVec::iso: the axes replaced, the buffer as it was.
MultiVecIso(m, new_axes) == [m EXCEPT !.axes = new_axes]

\* Vec's ordering: by the first position where the elements differ, a
\* proper prefix being less.
RECURSIVE SeqCmp(_, _)
SeqCmp(a, b) ==
    IF a = <<>> /\ b = <<>> THEN "Equal"
    ELSE IF a = <<>> THEN "Less"
    ELSE IF b = <<>> THEN "Greater"
    ELSE IF Head(a) < Head(b) THEN "Less"
    ELSE IF Head(a) > Head(b) THEN "Greater"
    ELSE SeqCmp(Tail(a), Tail(b))

\* Ord for MultiVec: the ordering of the buffers.
MultiVecCmp(a, b) == SeqCmp(a.data, b.data)

\* PartialOrd for MultiVec: the ordering of the buffers, always defined.
MultiVecPartialCmp(a, b) == SeqCmp(a.data, b.data)

(* ----------------------------- GF(2^8) -------------------------------- *)

RECURSIVE XorN(_, _, _)
XorN(a, b, n) ==
    IF n = 0 THEN 0
    ELSE (((a % 2) + (b % 2)) % 2) + 2 * XorN(a \div 2, b \div 2, n - 1)

\* Exclusive or of two four-bit values, tabulated.
XorNibble == [a \in 0..15 |-> [b \in 0..15 |-> XorN(a, b, 4)]]

\* Addition in GF(2^8): exclusive or of the two bytes.
GfAdd(a, b) == 16 * XorNibble[a \div 16][b \div 16] + XorNibble[a % 16][b % 16]

\* Multiplication by x modulo x^8 + x^4 + x^3 + x + 1.
GfDouble(a) ==
    LET s == (2 * a) % 256
    IN  IF a >= 128 THEN GfAdd(s, 27) ELSE s

\* Shift-and-add multiplication over the n low bits of b.
RECURSIVE GfMulN(_, _, _)
GfMulN(a, b, n) ==
    IF n = 0 \/ b = 0 THEN 0
    ELSE GfAdd(IF b % 2 = 1 THEN a ELSE 0, GfMulN(GfDouble(a), b \div 2, n - 1))

RECURSIVE GfPowN(_, _)
GfPowN(a, n) == IF n = 0 THEN 1 ELSE GfMulN(a, GfPowN(a, n - 1), 8)

\* The powers 3^0 .. 3^254 of the generator 3 (entry i is 3^(i-1)), and the
\* logarithms to that base (GfLog[a] = i iff 3^(i-1) = a).
GfExpLow == [i \in 1..16 |-> GfPowN(3, i - 1)]

GfExpHigh == [i \in 1..16 |-> GfPowN(GfPowN(3, 16), i - 1)]

GfExp ==
    [i \in 1..255 |->
        GfMulN(GfExpHigh[((i - 1) \div 16) + 1], GfExpLow[((i - 1) % 16) + 1], 8)]

GfLog == [a \in 1..255 |-> CHOOSE i \in 1..255 : GfExp[i] = a]

\* Multiplication in GF(2^8), by the tables.
GfMul(a, b) ==
    IF a = 0 \/ b = 0 THEN 0
    ELSE GfExp[((GfLog[a] + GfLog[b] - 2) % 255) + 1]

\* The inverse of a nonzero element.
GfInv(a) == GfExp[((256 - GfLog[a]) % 255) + 1]

\* f(x) for the polynomial with constant term secret and further coefficients
\* coeffs (lowest degree first), by Horner's rule.
RECURSIVE PolyEval(_, _, _)
PolyEval(secret, coeffs, x) ==
    IF coeffs = <<>> THEN secret
    ELSE GfAdd(secret, GfMul(x, PolyEval(Head(coeffs), Tail(coeffs), x)))

\* shamir::split_secret: the error of its parameter check, or "none".
ShamirCheckParams(threshold, limit) ==
    IF limit < threshold THEN "SharingLimitLessThanThreshold"
    ELSE IF threshold < 2 THEN "SharingMinThreshold"
    ELSE "none"

\* shamir::split_secret: the pairs <<i, f(i)>>, i = 1..limit, of a polynomial
\* of degree threshold - 1 whose other coefficients are the next bytes drawn.
ShamirSplitSecret(threshold, limit, secret, s) ==
    LET coeffs == [k \in 1..(threshold - 1) |-> RngByte(s, k)]
    IN  [i \in 1..limit |-> <<i, PolyEval(secret, coeffs, i)>>]

\* The Lagrange basis polynomial of point j, evaluated at 0, for the points
\* with the x-coordinates xs.
RECURSIVE LagrangeBasis(_, _, _)
LagrangeBasis(xs, j, m) ==
    IF m = 0 THEN 1
    ELSE IF m = j THEN LagrangeBasis(xs, j, m - 1)
    ELSE GfMul(GfMul(xs[m], GfInv(GfAdd(xs[m], xs[j]))),
               LagrangeBasis(xs, j, m - 1))

LagrangeWeights(xs) == [j \in 1..Len(xs) |-> LagrangeBasis(xs, j, Len(xs))]

RECURSIVE InterpolateN(_, _, _)
InterpolateN(w, ys, j) ==
    IF j = 0 THEN 0
    ELSE GfAdd(GfMul(ys[j], w[j]), InterpolateN(w, ys, j - 1))

\* combine_shares: interpolation at x = 0 from the bytes ys of the points
\* whose Lagrange weights are w.
CombineShares(w, ys) == InterpolateN(w, ys, Len(ys))

(* ----------------------------- results -------------------------------- *)

None == [none |-> TRUE]

Ok(v) == [ok |-> TRUE, err |-> "none", val |-> v]

Err(e) == [ok |-> FALSE, err |-> e, val |-> None]

\* The result slot of a call that has not returned.
NotReturned == [ok |-> FALSE, err |-> "pending", val |-> None]

(* --------------------------- signing key ------------------------------ *)

CellsPerMatrix == digest_size_in_bits * DigestBytes

SigningKeyRandom(s) ==
    [zero_values |-> DigestRandom(s),
     one_values |-> DigestRandom(RngSkip(s, CellsPerMatrix)),
     used |-> FALSE]

\* Derived equality of signing keys: field by field.
SigningKeyEq(a, b) ==
    /\ MultiVecEq(a.zero_values, b.zero_values)
    /\ MultiVecEq(a.one_values, b.one_values)
    /\ a.used = b.used

\* Derived equality of signing key shares: field by field.
SigningKeyShareEq(a, b) ==
    /\ a.identifier = b.identifier
    /\ MultiVecEq(a.zero_values, b.zero_values)
    /\ MultiVecEq(a.one_values, b.one_values)
    /\ a.used = b.used
    /\ a.threshold = b.threshold

\* The selection with its two operands exchanged.
ConditionalSelectSwapped(a, b, choice) == IF choice = 1 THEN a ELSE b

\* Derived Clone of signing keys: field by field.
SigningKeyClone(key) ==
    [zero_values |-> MultiVecClone(key.zero_values),
     one_values |-> MultiVecClone(key.one_values),
     used |-> key.used]

\* Derived Clone of signing key shares: field by field.
SigningKeyShareClone(share) ==
    [identifier |-> share.identifier,
     zero_values |-> MultiVecClone(share.zero_values),
     one_values |-> MultiVecClone(share.one_values),
     threshold |-> share.threshold,
     used |-> share.used]

\* subtle's conditional_select: a when choice is 0, b when it is 1.
ConditionalSelect(a, b, choice) == IF choice = 1 THEN b ELSE a

\* The bits of a byte taken from the most significant end.
HashBitMsbFirst(data_hash, k, j) == (data_hash[k + 1] \div (2 ^ (7 - j))) % 2

\* Bit j of byte number k (from 0) of the digest: (byte >> j) & 1.
HashBit(data_hash, k, j) == (data_hash[k + 1] \div (2 ^ j)) % 2

\* The bit that selects row number row (from 0): rows follow the digest's
\* bytes in order, and within a byte j runs from 0 to 7.
RowBit(data_hash, row) == HashBit(data_hash, row \div 8, row % 8)

\* The matrix byte the selection loop of sign writes at flat position p.
SelectCell(zero_values, one_values, data_hash, bytes, p) ==
    ConditionalSelect(zero_values.data[p], one_values.data[p],
                      RowBit(data_hash, (p - 1) \div bytes))

\* The digest of the data without its last byte.
SignHashDropLast(data) == digest(SubSeq(data, 1, Len(data) - 1))

\* The digest sign takes of the caller's data.
SignHash(data) == digest(data)

SignData(zero_values, one_values, data) ==
    LET data_hash == SignHash(data)
        bits == digest_size_in_bits
        bytes == bits \div 8
    IN  [data |-> [p \in 1..(Len(data_hash) * 8 * bytes) |->
                      SelectCell(zero_values, one_values, data_hash, bytes, p)],
         axes |-> <<bits, bytes>>]

\* The check that opens sign.
SignRefuses(key) == key.used

\* sign that also clears Z when it marks the key.
SignMarkUsedAndWipe(key) ==
    [key EXCEPT !.used = TRUE,
                !.zero_values = MultiVecFill(key.zero_values.axes, 0)]

\* sign without the assignment to used.
SignMarkUsedNot(key) == key

\* The key as sign leaves it when it succeeds.
SignMarkUsed(key) == [key EXCEPT !.used = TRUE]

\* sign: the result and the key afterwards.
SigningKeySign(key, data) ==
    IF SignRefuses(key)
    THEN [res |-> Err("PrivateKeyReuseError"), key |-> key]
    ELSE [res |-> Ok([data |-> SignData(key.zero_values, key.one_values, data)]),
          key |-> SignMarkUsed(key)]

(* -------------------------- verifying key ----------------------------- *)

HashRows(m) ==
    [data |-> [p \in 1..MultiVecLen(m) |->
                  digest(MultiVecRow(m, (p - 1) \div m.axes[2]))[((p - 1) % m.axes[2]) + 1]],
     axes |-> m.axes]

VerifyingKeyFrom(key) ==
    [zero_values |-> HashRows(key.zero_values),
     one_values |-> HashRows(key.one_values)]

\* Bit number i of the digest in the normative order: position 8*k + j holds
\* (d[k] >> j) & 1.
VerifyBit(data_hash, i) == (data_hash[(i \div 8) + 1] \div (2 ^ (i % 8))) % 2

VerifyRow(vkey, signature, data_hash, i) ==
    LET t == digest(MultiVecRow(signature.data, i))
    IN  IF VerifyBit(data_hash, i) = 0
        THEN t = MultiVecRow(vkey.zero_values, i)
        ELSE t = MultiVecRow(vkey.one_values, i)

VerifyingKeyVerify(vkey, signature, data) ==
    LET data_hash == digest(data)
    IN  IF signature.data.axes # <<digest_size_in_bits, DigestBytes>>
        THEN Err("InvalidSignatureBytes")
        ELSE IF \A i \in 0..(digest_size_in_bits - 1) :
                    VerifyRow(vkey, signature, data_hash, i)
        THEN Ok(None)
        ELSE Err("InvalidSignatureBytes")


(* ------------------------- split and combine -------------------------- *)

\* The identifier of share i (u8::try_from(i); its failure is in
\* SplitBlankError).
ShareIdentifier(i) == i

\* Blank shares that do not take over the used flag.
SplitBlankUnused(key, threshold, i) ==
    [identifier |-> ShareIdentifier(i),
     zero_values |-> MultiVecFill(key.zero_values.axes, 0),
     one_values |-> MultiVecFill(key.one_values.axes, 0),
     threshold |-> threshold,
     used |-> FALSE]

\* The shares before their cells are filled: identifiers, threshold and the
\* used flag of the source key.
SplitBlank(key, threshold, i) ==
    [identifier |-> ShareIdentifier(i),
     zero_values |-> MultiVecFill(key.zero_values.axes, 0),
     one_values |-> MultiVecFill(key.one_values.axes, 0),
     threshold |-> threshold,
     used |-> key.used]

\* The largest value of a u8, the type of identifiers and thresholds.
U8Max == 255

\* The error of the loop that builds the blank shares, or "none":
\* u8::try_from fails on the threshold in the first pass, or on the
\* identifier in pass 256.
SplitBlankError(threshold, shares) ==
    IF shares >= 1 /\ threshold > U8Max THEN "General"
    ELSE IF shares > U8Max THEN "General"
    ELSE "none"

\* The shares of every secret byte of the matrix m, in flat order: entry p
\* holds the pairs <<i, f(i)>> of byte p.  Each secret byte takes
\* threshold - 1 bytes from the generator, which is in state s at byte 1.
SplitMatrix(m, threshold, shares, s) ==
    [p \in 1..MultiVecLen(m) |->
        ShamirSplitSecret(threshold, shares, m.data[p],
                          RngSkip(s, (p - 1) * (threshold - 1)))]

\* The cells of the two matrices filled from each other's split bytes.
SplitShareSwapped(blank, tempZero, tempOne, i) ==
    [blank EXCEPT
       !.zero_values.data = [p \in 1..Len(tempOne) |-> tempOne[p][i][2]],
       !.one_values.data = [p \in 1..Len(tempZero) |-> tempZero[p][i][2]]]

\* Share i with its cells taken from the split bytes.
SplitShare(blank, tempZero, tempOne, i) ==
    [blank EXCEPT
       !.zero_values.data = [p \in 1..Len(tempZero) |-> tempZero[p][i][2]],
       !.one_values.data = [p \in 1..Len(tempOne) |-> tempOne[p][i][2]]]

\* The vector split returns on success.
SplitOutput(key, threshold, shares, s) ==
    LET tempZero == SplitMatrix(key.zero_values, threshold, shares, s)
        tempOne == SplitMatrix(key.one_values, threshold, shares,
                               RngSkip(s, MultiVecLen(key.zero_values) * (threshold - 1)))
    IN  [i \in 1..shares |->
            SplitShare(SplitBlank(key, threshold, i), tempZero, tempOne, i)]

\* split with the parameter check of the sharing made before the shares
\* are built.
SigningKeySplitShamirFirst(key, threshold, shares, s) ==
    IF ShamirCheckParams(threshold, shares) # "none"
    THEN [res |-> Err(ShamirCheckParams(threshold, shares)), rng |-> s]
    ELSE IF SplitBlankError(threshold, shares) # "none"
    THEN [res |-> Err(SplitBlankError(threshold, shares)), rng |-> s]
    ELSE [res |-> Ok(SplitOutput(key, threshold, shares, s)),
          rng |-> RngSkip(s, (MultiVecLen(key.zero_values) + MultiVecLen(key.one_values))
                                * (threshold - 1))]

\* split: the result and the state of the generator afterwards.
SigningKeySplit(key, threshold, shares, s) ==
    IF SplitBlankError(threshold, shares) # "none"
    THEN [res |-> Err(SplitBlankError(threshold, shares)), rng |-> s]
    ELSE IF ShamirCheckParams(threshold, shares) # "none"
    THEN [res |-> Err(ShamirCheckParams(threshold, shares)), rng |-> s]
    ELSE [res |-> Ok(SplitOutput(key, threshold, shares, s)),
          rng |-> RngSkip(s, (MultiVecLen(key.zero_values) + MultiVecLen(key.one_values))
                                * (threshold - 1))]

\* The length check made strict.
CombineTooFewStrict(shares) == Len(shares) <= shares[1].threshold

\* The length check that opens combine.
CombineTooFew(shares) == Len(shares) < shares[1].threshold

\* The flag of the first share alone.
CombineUsedFirst(shares) == shares[1].used

\* The used flag combine gives the rebuilt key: false at first, then
\* or-ed with the flag of every share in each pass over the cells of Z.
CombineUsed(shares) ==
    /\ MultiVecLen(shares[1].zero_values) > 0
    /\ \E j \in 1..Len(shares) : shares[j].used

\* The matrix rebuilt cell by cell from the shares' matrices ms.
CombineMatrix(ids, ms) ==
    LET w == LagrangeWeights(ids)
    IN  [data |-> [p \in 1..MultiVecLen(ms[1]) |->
                      CombineShares(w, [j \in 1..Len(ms) |-> ms[j].data[p]])],
         axes |-> ms[1].axes]

SigningKeyCombine(shares) ==
    IF shares = <<>> THEN Err("InvalidPrivateKeyBytes")
    ELSE IF CombineTooFew(shares) THEN Err("SharingMinThreshold")
    ELSE LET ids == [j \in 1..Len(shares) |-> shares[j].identifier]
         IN  Ok([zero_values |->
                     CombineMatrix(ids, [j \in 1..Len(shares) |-> shares[j].zero_values]),
                 one_values |->
                     CombineMatrix(ids, [j \in 1..Len(shares) |-> shares[j].one_values]),
                 used |-> CombineUsed(shares)])

(* ---------------------- shares and signatures ------------------------- *)

\* The signature share built with identifier and threshold exchanged.
SigningKeyShareSignSwapped(share, data) ==
    LET s == [zero_values |-> share.zero_values,
              one_values |-> share.one_values,
              used |-> share.used]
        signed == SigningKeySign(s, data)
    IN  IF ~signed.res.ok
        THEN [res |-> signed.res, share |-> share]
        ELSE [res |-> Ok([identifier |-> share.threshold,
                          threshold |-> share.identifier,
                          data |-> signed.res.val.data]),
              share |-> [share EXCEPT !.used = TRUE]]

\* The share's sign without the assignment to used.
ShareMarkUsedNot(share) == share

\* The share as its sign leaves it when it succeeds.
ShareMarkUsed(share) == [share EXCEPT !.used = TRUE]

\* SigningKeyShare::sign: the result and the share afterwards.
SigningKeyShareSign(share, data) ==
    LET s == [zero_values |-> share.zero_values,
              one_values |-> share.one_values,
              used |-> share.used]
        signed == SigningKeySign(s, data)
    IN  IF ~signed.res.ok
        THEN [res |-> signed.res, share |-> share]
        ELSE [res |-> Ok([identifier |-> share.identifier,
                          threshold |-> share.threshold,
                          data |-> signed.res.val.data]),
              share |-> ShareMarkUsed(share)]

\* Signature::combine over signature shares.
SignatureCombine(shares) ==
    IF shares = <<>> THEN Err("SharingMinThreshold")
    ELSE IF Len(shares) < shares[1].threshold THEN Err("SharingMinThreshold")
    ELSE IF \E j \in 1..Len(shares) :
                \/ shares[j].data.axes # shares[1].data.axes
                \/ shares[j].threshold # shares[1].threshold
                \/ shares[j].identifier = 0
    THEN Err("InvalidSignatureBytes")
    ELSE IF \E j, k \in 1..Len(shares) :
                j # k /\ shares[j].identifier = shares[k].identifier
    THEN Err("InvalidSignatureBytes")
    ELSE Ok([data |->
                CombineMatrix([j \in 1..Len(shares) |-> shares[j].identifier],
                              [j \in 1..Len(shares) |-> shares[j].data])])

(* ------------------------------ codec --------------------------------- *)

\* The flag always written as zero.
BoolByteZero(b) == 0

BoolByte(b) == IF b THEN 1 ELSE 0

\* A buffer of n zero bytes whose bytes after the first header bytes are
\* overwritten, pairwise and as far as both last, by the bytes of chain.
ZipOnto(header, n, chain) ==
    [i \in 1..n |->
        IF i <= Len(header) THEN header[i]
        ELSE IF i - Len(header) <= Len(chain) THEN chain[i - Len(header)]
        ELSE 0]

SigningKeyToBytes(key) ==
    LET bits == digest_size_in_bits
        bytes == bits \div 8
    IN  ZipOnto(<<BoolByte(key.used)>>, 1 + bytes * bits * 2,
                key.zero_values.data \o key.one_values.data)

separate_one_and_zero_values(input, bytes) ==
    LET bits == bytes * 8
    IN  [zero_values |-> [data |-> SubSeq(input, 1, bits * bytes),
                          axes |-> <<bits, bytes>>],
         one_values |-> [data |-> SubSeq(input, bits * bytes + 1, Len(input)),
                         axes |-> <<bits, bytes>>]]

\* The length from_bytes demands of a signing key.
SigningKeyBytesLen == digest_size_in_bits * (digest_size_in_bits \div 8) * 2 + 1

\* The flag byte ignored.
DecodeUsedNever(byte) == FALSE

\* The used flag from_bytes reads from its flag byte.
DecodeUsed(byte) == byte = 1

SigningKeyFromBytes(input) ==
    LET bytes == digest_size_in_bits \div 8
    IN  IF Len(input) # SigningKeyBytesLen THEN Err("InvalidPrivateKeyBytes")
        ELSE LET m == separate_one_and_zero_values(SubSeq(input, 2, Len(input)), bytes)
             IN  Ok([zero_values |-> m.zero_values,
                     one_values |-> m.one_values,
                     used |-> DecodeUsed(input[1])])

SigningKeyShareToBytes(share) ==
    LET bits == digest_size_in_bits
        bytes == bits \div 8
    IN  ZipOnto(<<share.identifier, share.threshold, BoolByte(share.used)>>,
                3 + bytes * bits * 2,
                share.zero_values.data \o share.one_values.data)

\* The length from_bytes demands of a signing key share.
SigningKeyShareBytesLen == digest_size_in_bits * (digest_size_in_bits \div 8) * 2 + 3

\* The header rejected only when both bytes are bad.
ShareHeaderInvalidBoth(identifier, threshold) == identifier = 0 /\ threshold < 2

\* The header checks of the share decoder.
ShareHeaderInvalid(identifier, threshold) == identifier = 0 \/ threshold < 2

SigningKeyShareFromBytes(input) ==
    LET bytes == digest_size_in_bits \div 8
    IN  IF Len(input) # SigningKeyShareBytesLen THEN Err("InvalidPrivateKeyBytes")
        ELSE IF ShareHeaderInvalid(input[1], input[2]) THEN Err("InvalidPrivateKeyBytes")
        ELSE LET m == separate_one_and_zero_values(SubSeq(input, 4, Len(input)), bytes)
             IN  Ok([identifier |-> input[1],
                     zero_values |-> m.zero_values,
                     one_values |-> m.one_values,
                     threshold |-> input[2],
                     used |-> DecodeUsed(input[3])])


(* ------------------------------ inputs -------------------------------- *)

Seeds == {3, 200}

MsgBytes == {104}

Messages == UNION {[1..l -> MsgBytes] : l \in 0..MaxMsgLen}

\* The thresholds and share counts split is called with: the small ones,
\* zero, and the first that a u8 does not hold.
SplitParams == (0..MaxShares) \cup {U8Max + 1}

Tasks == 1..NumTasks

\* Two runs of sign are observed side by side.
Runs == {"first", "second"}

\* The matrices a caller holds.
Slots == {"a", "b"}

RECURSIVE AscSeq(_)
AscSeq(S) ==
    IF S = {} THEN <<>>
    ELSE LET m == CHOOSE x \in S : \A y \in S : x <= y
         IN  <<m>> \o AscSeq(S \ {m})

Reverse(q) == [i \in 1..Len(q) |-> q[Len(q) + 1 - i]]

\* The slices a caller passes to a combiner: the chosen positions in
\* ascending or in descending order.
Slice(S, rev) == IF rev THEN Reverse(AscSeq(S)) ELSE AscSeq(S)

(* --------------------------- state machine ---------------------------- *)

VARIABLES
    rng,        \* state of the caller's random generator
    sk,         \* the signing key
    vk,         \* the verifying key made from sk by generate_keys
    okSigns,    \* number of sign calls on sk that returned a signature
    shares,     \* the signing key shares the caller holds (<<>>: none yet)
    issued,     \* the key that was split and the shares as split returned them
    sigShares,  \* per share, the signature share it produced and its message
    ret,        \* the last call and what it returned
    borrow,     \* the task holding the exclusive borrow of sk (0: nobody)
    pc,         \* per task, its position inside sign
    call,       \* per task, the message it signs and the signature it builds
    results,    \* per task, what its sign call returned
    acc,        \* per observed run of sign, its key, position and accesses
    mats,       \* the byte matrices a caller holds, by slot
    mret        \* the last call on a byte matrix and what it returned

vars == <<rng, sk, vk, okSigns, shares, issued, sigShares, ret,
          borrow, pc, call, results, acc, mats, mret>>

keyVars == <<rng, sk, vk, okSigns, shares, issued, sigShares, ret>>

taskVars == <<borrow, pc, call, results>>

accessVars == <<acc>>

matrixVars == <<mats, mret>>

\* The caller holds no returned value.
NoCall == [op |-> "none"]

\* The caller makes its next call once it has let go of the value the last
\* call returned (verify takes a returned signature as it is).
CallerIdle == ret = NoCall

\* generate_keys with a generator seeded with seed.
Init ==
    \E seed \in Seeds :
        /\ sk = SigningKeyRandom(seed)
        /\ vk = VerifyingKeyFrom(SigningKeyRandom(seed))
        /\ rng = RngSkip(seed, 2 * CellsPerMatrix)
        /\ okSigns = 0
        /\ shares = <<>>
        /\ issued = None
        /\ sigShares = <<>>
        /\ ret = NoCall
        /\ borrow = 0
        /\ pc = [t \in Tasks |-> "idle"]
        /\ call = [t \in Tasks |-> None]
        /\ results = [t \in Tasks |-> NotReturned]
        /\ acc = [r \in Runs |-> None]
        /\ mats = [s \in Slots |-> None]
        /\ mret = NoCall

\* sk.sign(m)
Sign(m) ==
    LET r == SigningKeySign(sk, m)
    IN  /\ CallerIdle
        /\ sk' = r.key
        /\ okSigns' = IF r.res.ok THEN okSigns + 1 ELSE okSigns
        /\ ret' = [op |-> "sign", msg |-> m, before |-> sk, res |-> r.res]
        /\ UNCHANGED <<rng, vk, shares, issued, sigShares, taskVars, accessVars, matrixVars>>

\* vk.verify(sig, m) on the signature just returned by sign or by
\* Signature::combine.
Verify(m) ==
    /\ ret.op \in {"sign", "sig_combine"}
    /\ ret.res.ok
    /\ ret' = [op |-> "verify", msg |-> m, src |-> ret,
               res |-> VerifyingKeyVerify(vk, ret.res.val, m)]
    /\ UNCHANGED <<rng, sk, vk, okSigns, shares, issued, sigShares, taskVars, accessVars, matrixVars>>

\* sk.split(threshold, n, &mut rng)
Split(threshold, n) ==
    /\ CallerIdle
    /\ shares = <<>>
    /\ LET r == SigningKeySplit(sk, threshold, n, rng)
       IN  /\ rng' = r.rng
           /\ shares' = IF r.res.ok THEN r.res.val ELSE shares
           /\ issued' = IF r.res.ok THEN [src |-> sk, out |-> r.res.val] ELSE issued
           /\ sigShares' = IF r.res.ok THEN [i \in 1..n |-> None] ELSE sigShares
           /\ ret' = [op |-> "split", threshold |-> threshold, n |-> n,
                      key |-> sk, res |-> r.res]
    /\ UNCHANGED <<sk, vk, okSigns, taskVars, accessVars, matrixVars>>

\* shares[i].sign(m)
ShareSign(i, m) ==
    /\ CallerIdle
    /\ i \in 1..Len(shares)
    /\ LET r == SigningKeyShareSign(shares[i], m)
       IN  /\ shares' = [shares EXCEPT ![i] = r.share]
           /\ sigShares' = IF r.res.ok
                           THEN [sigShares EXCEPT ![i] = [share |-> r.res.val, msg |-> m]]
                           ELSE sigShares
           /\ ret' = [op |-> "share_sign", i |-> i, msg |-> m,
                      before |-> shares[i], res |-> r.res]
    /\ UNCHANGED <<rng, sk, vk, okSigns, issued, taskVars, accessVars, matrixVars>>

\* SigningKey::combine(&[shares at the positions S])
CombineKey(S, rev) ==
    /\ CallerIdle
    /\ shares # <<>>
    /\ S \subseteq 1..Len(shares)
    /\ LET args == [k \in 1..Cardinality(S) |-> shares[Slice(S, rev)[k]]]
       IN  ret' = [op |-> "combine", args |-> args, res |-> SigningKeyCombine(args)]
    /\ UNCHANGED <<rng, sk, vk, okSigns, shares, issued, sigShares, taskVars, accessVars, matrixVars>>

\* Signature::combine(&[signature shares at the positions S])
CombineSig(S, rev) ==
    /\ CallerIdle
    /\ shares # <<>>
    /\ S \subseteq {i \in 1..Len(shares) : sigShares[i] # None}
    /\ LET args == [k \in 1..Cardinality(S) |-> sigShares[Slice(S, rev)[k]]]
       IN  ret' = [op |-> "sig_combine", args |-> args,
                   res |-> SignatureCombine([k \in 1..Len(args) |-> args[k].share])]
    /\ UNCHANGED <<rng, sk, vk, okSigns, shares, issued, sigShares, taskVars, accessVars, matrixVars>>

\* The caller lets go of the value the last call returned.
Discard ==
    /\ ret # NoCall
    /\ ret' = NoCall
    /\ UNCHANGED <<rng, sk, vk, okSigns, shares, issued, sigShares, taskVars, accessVars, matrixVars>>

(* ------------------------ calls of the codec -------------------------- *)

\* The byte strings a decoder is handed: the bytes as encoded, cut short,
\* extended by a byte, or with one of the first three bytes overwritten.
WireInputs(bytes) ==
    {bytes, Append(bytes, 0)}
        \cup {SubSeq(bytes, 1, l) : l \in {0, 1, Len(bytes) - 1}}
        \cup {[bytes EXCEPT ![pos] = v] : pos \in 1..3, v \in {0, 1, 2}}

\* sk.to_bytes()
KeyToBytes ==
    /\ CallerIdle
    /\ ret' = [op |-> "key_to_bytes", src |-> sk, res |-> Ok(SigningKeyToBytes(sk))]
    /\ UNCHANGED <<rng, sk, vk, okSigns, shares, issued, sigShares, taskVars, accessVars, matrixVars>>

\* to_bytes() of the key SigningKey::combine just returned
CombinedKeyToBytes ==
    /\ ret.op = "combine"
    /\ ret.res.ok
    /\ ret' = [op |-> "key_to_bytes", src |-> ret.res.val,
               res |-> Ok(SigningKeyToBytes(ret.res.val))]
    /\ UNCHANGED <<rng, sk, vk, okSigns, shares, issued, sigShares, taskVars, accessVars, matrixVars>>

\* shares[i].to_bytes()
ShareToBytes(i) ==
    /\ CallerIdle
    /\ i \in 1..Len(shares)
    /\ ret' = [op |-> "share_to_bytes", src |-> shares[i],
               res |-> Ok(SigningKeyShareToBytes(shares[i]))]
    /\ UNCHANGED <<rng, sk, vk, okSigns, shares, issued, sigShares, taskVars, accessVars, matrixVars>>

\* SigningKey::from_bytes(input), input being bytes just encoded or a
\* variation of them
KeyFromBytes ==
    /\ ret.op \in {"key_to_bytes", "share_to_bytes"}
    /\ \E input \in WireInputs(ret.res.val) :
          ret' = [op |-> "key_from_bytes", input |-> input, sent |-> ret,
                  res |-> SigningKeyFromBytes(input)]
    /\ UNCHANGED <<rng, sk, vk, okSigns, shares, issued, sigShares, taskVars, accessVars, matrixVars>>

\* SigningKeyShare::from_bytes(input)
ShareFromBytes ==
    /\ ret.op \in {"key_to_bytes", "share_to_bytes"}
    /\ \E input \in WireInputs(ret.res.val) :
          ret' = [op |-> "share_from_bytes", input |-> input, sent |-> ret,
                  res |-> SigningKeyShareFromBytes(input)]
    /\ UNCHANGED <<rng, sk, vk, okSigns, shares, issued, sigShares, taskVars, accessVars, matrixVars>>

(* ------------------- calls on values made from others ----------------- *)

\* sk.clone()
KeyClone ==
    /\ CallerIdle
    /\ ret' = [op |-> "clone", src |-> sk, res |-> Ok(SigningKeyClone(sk))]
    /\ UNCHANGED <<rng, sk, vk, okSigns, shares, issued, sigShares, taskVars,
                   accessVars, matrixVars>>

\* shares[i].clone()
ShareClone(i) ==
    /\ CallerIdle
    /\ i \in 1..Len(shares)
    /\ ret' = [op |-> "share_clone", src |-> shares[i],
               res |-> Ok(SigningKeyShareClone(shares[i]))]
    /\ UNCHANGED <<rng, sk, vk, okSigns, shares, issued, sigShares, taskVars,
                   accessVars, matrixVars>>

\* sign(m) on the key that clone, from_bytes or combine just returned
DerivedKeySign(m) ==
    /\ ret.op \in {"clone", "key_from_bytes", "combine"}
    /\ ret.res.ok
    /\ ret' = [op |-> "derived_sign", msg |-> m, src |-> ret,
               res |-> SigningKeySign(ret.res.val, m).res,
               after |-> SigningKeySign(ret.res.val, m).key]
    /\ UNCHANGED <<rng, sk, vk, okSigns, shares, issued, sigShares, taskVars,
                   accessVars, matrixVars>>

\* sign(m) on the share that clone or from_bytes just returned
DerivedShareSign(m) ==
    /\ ret.op \in {"share_clone", "share_from_bytes"}
    /\ ret.res.ok
    /\ ret' = [op |-> "derived_share_sign", msg |-> m, src |-> ret,
               res |-> SigningKeyShareSign(ret.res.val, m).res,
               after |-> SigningKeyShareSign(ret.res.val, m).share]
    /\ UNCHANGED <<rng, sk, vk, okSigns, shares, issued, sigShares, taskVars,
                   accessVars, matrixVars>>

(* ------------------ sign calls of several tasks ----------------------- *)

\* A key that several calls may hold at once.
BorrowIsShared(b) == TRUE

\* sign takes the key by exclusive reference: a call starts only while no
\* other call holds the key (b is the holder, 0 for nobody).
BorrowIsFree(b) == b = 0

\* A task calls sk.sign(m).
SignCall(t, m) ==
    /\ pc[t] = "idle"
    /\ BorrowIsFree(borrow)
    /\ borrow' = t
    /\ pc' = [pc EXCEPT ![t] = "check"]
    /\ call' = [call EXCEPT ![t] = [msg |-> m, saw |-> None, data |-> None]]
    /\ UNCHANGED <<keyVars, results, accessVars, matrixVars>>

\* The test of the used flag; the early return ends the call.
SignCheck(t) ==
    /\ pc[t] = "check"
    /\ call' = [call EXCEPT ![t].saw = sk.used]
    /\ IF SignRefuses(sk)
       THEN /\ results' = [results EXCEPT ![t] = Err("PrivateKeyReuseError")]
            /\ pc' = [pc EXCEPT ![t] = "done"]
            /\ borrow' = IF borrow = t THEN 0 ELSE borrow
       ELSE /\ pc' = [pc EXCEPT ![t] = "select"]
            /\ UNCHANGED <<results, borrow>>
    /\ UNCHANGED <<keyVars, accessVars, matrixVars>>

\* The digest and the selection loop fill the signature.
SignSelect(t) ==
    /\ pc[t] = "select"
    /\ call' = [call EXCEPT ![t].data =
                   SignData(sk.zero_values, sk.one_values, call[t].msg)]
    /\ pc' = [pc EXCEPT ![t] = "mark"]
    /\ UNCHANGED <<keyVars, results, borrow, accessVars, matrixVars>>

\* self.used = true
SignMark(t) ==
    /\ pc[t] = "mark"
    /\ sk' = SignMarkUsed(sk)
    /\ pc' = [pc EXCEPT ![t] = "return"]
    /\ UNCHANGED <<rng, vk, okSigns, shares, issued, sigShares, ret,
                   results, borrow, call, accessVars, matrixVars>>

\* The call returns the signature and gives the key back.
SignReturn(t) ==
    /\ pc[t] = "return"
    /\ results' = [results EXCEPT ![t] = Ok([data |-> call[t].data])]
    /\ okSigns' = okSigns + 1
    /\ pc' = [pc EXCEPT ![t] = "done"]
    /\ borrow' = IF borrow = t THEN 0 ELSE borrow
    /\ UNCHANGED <<rng, sk, vk, shares, issued, sigShares, ret, call,
                   accessVars, matrixVars>>

(* --------------- the memory accesses of the selection ----------------- *)

\* An access: which buffer, which flat position (from 1), read or write.
Access(buffer, p, kind) == [buffer |-> buffer, p |-> p, kind |-> kind]

\* A selection that reads only the side the bit selects.
SelectReadsChosen(p, choice) ==
    IF choice = 1 THEN <<Access("one", p, "read")>>
    ELSE <<Access("zero", p, "read")>>

\* The reads of one selection: both iterators are advanced, whatever the
\* bit, before conditional_select is entered.
SelectReads(p, choice) ==
    <<Access("zero", p, "read"), Access("one", p, "read")>>

\* The accesses of one pass of the innermost loop, at flat position p.
SelectAccesses(p, choice) ==
    SelectReads(p, choice) \o <<Access("signature", p, "write")>>

\* The accesses of a whole selection over n cells, whatever the key and
\* the digest: cell by cell, Z then O then the signature.
FlatAccesses(n) ==
    [k \in 1..(3 * n) |->
        LET p == ((k - 1) \div 3) + 1
        IN  IF k % 3 = 1 THEN Access("zero", p, "read")
            ELSE IF k % 3 = 2 THEN Access("one", p, "read")
            ELSE Access("signature", p, "write")]

\* A run calls sign(m) on a new key of its own: the used check passes, the
\* digest is taken and the signature buffer is filled with zeros.
AccessCall(r, seed, m) ==
    /\ acc[r] = None
    /\ ~SignRefuses(SigningKeyRandom(seed))
    /\ acc' = [acc EXCEPT ![r] =
                  [key |-> SigningKeyRandom(seed),
                   msg |-> m,
                   data_hash |-> SignHash(m),
                   data |-> MultiVecFill(<<digest_size_in_bits,
                                           digest_size_in_bits \div 8>>, 0),
                   pos |-> 0,
                   trace |-> <<>>,
                   done |-> FALSE]]
    /\ UNCHANGED <<keyVars, taskVars, matrixVars>>

\* One pass of the innermost loop of the selection.
AccessStep(r) ==
    /\ acc[r] # None
    /\ acc[r].pos < Len(acc[r].data_hash) * 8 * (digest_size_in_bits \div 8)
    /\ LET a == acc[r]
           p == a.pos + 1
           b == RowBit(a.data_hash, (p - 1) \div (digest_size_in_bits \div 8))
       IN  acc' = [acc EXCEPT ![r] =
                      [a EXCEPT
                         !.pos = p,
                         !.trace = a.trace \o SelectAccesses(p, b),
                         !.data.data[p] =
                            ConditionalSelect(a.key.zero_values.data[p],
                                              a.key.one_values.data[p], b)]]
    /\ UNCHANGED <<keyVars, taskVars, matrixVars>>

\* The loops are over: used is set and the signature returned.
AccessReturn(r) ==
    /\ acc[r] # None
    /\ ~acc[r].done
    /\ acc[r].pos = Len(acc[r].data_hash) * 8 * (digest_size_in_bits \div 8)
    /\ acc' = [acc EXCEPT ![r] = [acc[r] EXCEPT !.done = TRUE,
                                                !.key = SignMarkUsed(acc[r].key)]]
    /\ UNCHANGED <<keyVars, taskVars, matrixVars>>

(* ------------------------ calls on byte matrices ---------------------- *)

\* Axes are at most MaxDim long each.
MaxDim == 2

MatrixAxes == {<<r, c>> : r, c \in 0..MaxDim}

FillValues == {0, 1}

FillFns == {<<0, 1>>, <<1, 0>>}

\* mats[slot] = MultiVec::new(axes)
MatNew(slot, axes) ==
    /\ IF MultiVecNewPanics(axes)
       THEN /\ mret' = [op |-> "new", slot |-> slot, axes |-> axes,
                        res |-> Err("panic")]
            /\ UNCHANGED mats
       ELSE /\ mats' = [mats EXCEPT ![slot] = MultiVecNew(axes)]
            /\ mret' = [op |-> "new", slot |-> slot, axes |-> axes,
                        res |-> Ok(MultiVecNew(axes))]
    /\ UNCHANGED <<keyVars, taskVars, accessVars>>

\* mats[slot] = MultiVec::fill(axes, value)
MatFill(slot, axes, value) ==
    /\ mats' = [mats EXCEPT ![slot] = MultiVecFill(axes, value)]
    /\ mret' = [op |-> "fill", slot |-> slot, axes |-> axes,
                res |-> Ok(MultiVecFill(axes, value))]
    /\ UNCHANGED <<keyVars, taskVars, accessVars>>

\* mats[slot] = MultiVec::fill_fn(axes, f)
MatFillFn(slot, axes, fn) ==
    /\ mats' = [mats EXCEPT ![slot] = MultiVecFillFn(axes, fn)]
    /\ mret' = [op |-> "fill_fn", slot |-> slot, axes |-> axes,
                res |-> Ok(MultiVecFillFn(axes, fn))]
    /\ UNCHANGED <<keyVars, taskVars, accessVars>>

\* mats[slot].iso(new_axes)
MatIso(slot, new_axes) ==
    /\ mats[slot] # None
    /\ IF MultiVecIsoPanics(mats[slot], new_axes)
       THEN /\ mret' = [op |-> "iso", slot |-> slot, axes |-> new_axes,
                        before |-> mats[slot], res |-> Err("panic")]
            /\ UNCHANGED mats
       ELSE /\ mats' = [mats EXCEPT ![slot] = MultiVecIso(mats[slot], new_axes)]
            /\ mret' = [op |-> "iso", slot |-> slot, axes |-> new_axes,
                        before |-> mats[slot], res |-> Ok(None)]
    /\ UNCHANGED <<keyVars, taskVars, accessVars>>

\* a == b, a.cmp(&b) and a.partial_cmp(&b) of the two matrices held
MatCompare ==
    /\ mats["a"] # None
    /\ mats["b"] # None
    /\ mret' = [op |-> "cmp",
                eq |-> MultiVecEq(mats["a"], mats["b"]),
                ord |-> MultiVecCmp(mats["a"], mats["b"]),
                partial |-> MultiVecPartialCmp(mats["a"], mats["b"])]
    /\ UNCHANGED <<keyVars, taskVars, accessVars, mats>>

(* -------------------------- specifications ---------------------------- *)

Next ==
    \/ \E m \in Messages : Sign(m)
    \/ \E m \in Messages : Verify(m)
    \/ \E threshold, n \in SplitParams : Split(threshold, n)
    \/ \E i \in 1..MaxShares, m \in Messages : ShareSign(i, m)
    \/ \E S \in SUBSET (1..MaxShares), rev \in BOOLEAN : CombineKey(S, rev)
    \/ \E S \in SUBSET (1..MaxShares), rev \in BOOLEAN : CombineSig(S, rev)
    \/ Discard

Spec == Init /\ [][Next]_vars

\* The calls around the codec.
NextCodec ==
    \/ \E m \in Messages : Sign(m)
    \/ \E threshold, n \in 1..MaxShares : Split(threshold, n)
    \/ \E i \in 1..MaxShares : ShareSign(i, <<>>)
    \/ \E S \in SUBSET (1..MaxShares) : CombineKey(S, FALSE)
    \/ KeyToBytes
    \/ CombinedKeyToBytes
    \/ \E i \in 1..MaxShares : ShareToBytes(i)
    \/ KeyFromBytes
    \/ ShareFromBytes
    \/ KeyClone
    \/ \E i \in 1..MaxShares : ShareClone(i)
    \/ \E m \in Messages : DerivedKeySign(m)
    \/ \E m \in Messages : DerivedShareSign(m)
    \/ Discard

SpecCodec == Init /\ [][NextCodec]_vars

\* Tasks sharing the one key.
NextTasks ==
    \/ \E t \in Tasks, m \in Messages : SignCall(t, m)
    \/ \E t \in Tasks : SignCheck(t)
    \/ \E t \in Tasks : SignSelect(t)
    \/ \E t \in Tasks : SignMark(t)
    \/ \E t \in Tasks : SignReturn(t)

SpecTasks == Init /\ [][NextTasks]_vars

\* Two runs of sign, each on a key of its own.
NextAccess ==
    \/ \E r \in Runs, seed \in Seeds, m \in Messages : AccessCall(r, seed, m)
    \/ \E r \in Runs : AccessStep(r)
    \/ \E r \in Runs : AccessReturn(r)

SpecAccess == Init /\ [][NextAccess]_vars

\* A caller of the byte matrices.
NextMatrix ==
    \/ \E slot \in Slots, axes \in MatrixAxes : MatNew(slot, axes)
    \/ \E slot \in Slots, axes \in MatrixAxes, value \in FillValues :
          MatFill(slot, axes, value)
    \/ \E slot \in Slots, axes \in MatrixAxes, fn \in FillFns :
          MatFillFn(slot, axes, fn)
    \/ \E slot \in Slots, axes \in MatrixAxes : MatIso(slot, axes)
    \/ MatCompare

SpecMatrix == Init /\ [][NextMatrix]_vars

(* ------------------------------ claims -------------------------------- *)

\* The threshold of the split whose shares the caller holds.
IssuedThreshold == issued.out[1].threshold

\* Every element of args is a share exactly as split returned it.
AsIssued(args) ==
    \A k \in 1..Len(args) : \E i \in 1..Len(issued.out) : args[k] = issued.out[i]

\* Every signature share of args was made for the message m.
SameMessage(args, m) == \A k \in 1..Len(args) : args[k].msg = m

\* C1: at most one sign call on the key returns a signature; a sign call
\* on a used key returns PrivateKeyReuseError whatever the message; and the
\* used flag, once true, stays true.
OneTimeEnforcement ==
    /\ [](okSigns <= 1)
    /\ [](ret.op = "sign" /\ ret.before.used
            => ret.res = Err("PrivateKeyReuseError"))
    /\ [](ret.op = "sign" /\ ret.res.ok => ~ret.before.used /\ sk.used)
    /\ [][sk.used => sk'.used]_vars

\* A second sign call has been refused.
OneTimeEnforcementWitness ==
    /\ ret.op = "sign"
    /\ okSigns = 1
    /\ ret.before.used
    /\ ret.res.err = "PrivateKeyReuseError"

\* C2: the verifying key made from the key accepts, for the message m, the
\* signature sign(m) returned.
VerifyAfterSign ==
    ret.op = "verify" /\ ret.src.op = "sign" /\ ret.msg = ret.src.msg
        => ret.res.ok

VerifyAfterSignWitness ==
    /\ ret.op = "verify"
    /\ ret.src.op = "sign"
    /\ ret.msg = ret.src.msg
    /\ ret.msg # <<>>
    /\ ret.res.ok

\* C3: signature shares that at least threshold shares of one split made
\* for the same message m combine into the signature the split key gives
\* for m, and the verifying key of that key accepts it for m.
PartialSignComposition ==
    /\ ret.op = "sig_combine" /\ ret.args # <<>>
         /\ Len(ret.args) >= IssuedThreshold
         /\ SameMessage(ret.args, ret.args[1].msg)
       => /\ ret.res.ok
          /\ ret.res.val.data = SignData(issued.src.zero_values,
                                         issued.src.one_values, ret.args[1].msg)
    /\ ret.op = "verify" /\ ret.src.op = "sig_combine"
         /\ Len(ret.src.args) >= IssuedThreshold
         /\ SameMessage(ret.src.args, ret.msg)
       => ret.res.ok

\* Exactly threshold shares out of more have signed, combined and verified.
PartialSignCompositionWitness ==
    /\ ret.op = "verify"
    /\ ret.src.op = "sig_combine"
    /\ Len(ret.src.args) = IssuedThreshold
    /\ Len(ret.src.args) < Len(shares)
    /\ SameMessage(ret.src.args, ret.msg)
    /\ ret.res.ok

\* C4 as claimed: combine over shares as split returned them gives the
\* bytes of the split key from threshold shares on, and SharingMinThreshold
\* for every smaller selection.
KeySplitCombineAsClaimed ==
    ret.op = "combine" /\ AsIssued(ret.args)
        => /\ Len(ret.args) >= IssuedThreshold
              => /\ ret.res.ok
                 /\ SigningKeyToBytes(ret.res.val) = SigningKeyToBytes(issued.src)
           /\ Len(ret.args) < IssuedThreshold
              => ret.res = Err("SharingMinThreshold")

\* C4 amended: combine over shares as split returned them gives the bytes
\* of the split key from threshold shares on, SharingMinThreshold for
\* every smaller selection that is not empty, and InvalidPrivateKeyBytes
\* for the empty one.
KeySplitCombine ==
    ret.op = "combine" /\ AsIssued(ret.args)
        => /\ Len(ret.args) >= IssuedThreshold
              => /\ ret.res.ok
                 /\ SigningKeyToBytes(ret.res.val) = SigningKeyToBytes(issued.src)
           /\ Len(ret.args) < IssuedThreshold /\ ret.args # <<>>
              => ret.res = Err("SharingMinThreshold")
           /\ ret.args = <<>>
              => ret.res = Err("InvalidPrivateKeyBytes")

\* A proper selection of exactly threshold shares has rebuilt the key.
KeySplitCombineWitness ==
    /\ ret.op = "combine"
    /\ AsIssued(ret.args)
    /\ Len(ret.args) = IssuedThreshold
    /\ Len(ret.args) < Len(shares)
    /\ ret.res.ok
    /\ SigningKeyToBytes(ret.res.val) = SigningKeyToBytes(issued.src)

\* C5: Signature::combine over fewer signature shares than the threshold of
\* the split returns an error and no signature.
InsufficientSigCombine ==
    ret.op = "sig_combine" /\ Len(ret.args) < IssuedThreshold
        => ~ret.res.ok /\ ret.res.val = None

\* Two signature shares of a split with threshold three were refused.
InsufficientSigCombineWitness ==
    /\ ret.op = "sig_combine"
    /\ Len(ret.args) = 2
    /\ IssuedThreshold = 3
    /\ ~ret.res.ok

\* C6: the signature sign(m) returned is not accepted for a message m2
\* whenever the digests of m and m2 differ in a bit whose two rows of the
\* verifying key differ.
MessageBinding ==
    ret.op = "verify" /\ ret.src.op = "sign"
      /\ (\E i \in 0..(digest_size_in_bits - 1) :
            /\ VerifyBit(digest(ret.msg), i) # VerifyBit(digest(ret.src.msg), i)
            /\ MultiVecRow(vk.zero_values, i) # MultiVecRow(vk.one_values, i))
        => ~ret.res.ok

MessageBindingWitness ==
    /\ ret.op = "verify"
    /\ ret.src.op = "sign"
    /\ ret.msg # ret.src.msg
    /\ \E i \in 0..(digest_size_in_bits - 1) :
            /\ VerifyBit(digest(ret.msg), i) # VerifyBit(digest(ret.src.msg), i)
            /\ MultiVecRow(vk.zero_values, i) # MultiVecRow(vk.one_values, i)
    /\ ~ret.res.ok

\* C7: decoding the bytes to_bytes gave for a key or a share succeeds and
\* gives back an equal value whose encoding is the same bytes; the bytes
\* are used, Z, O (1 + 2*B*Y bytes) for a key and identifier, threshold,
\* used, Z, O (3 + 2*B*Y bytes) for a share.
RoundTripCodec ==
    /\ ret.op = "key_from_bytes" /\ ret.sent.op = "key_to_bytes"
         /\ ret.input = ret.sent.res.val
       => /\ ret.res.ok
          /\ SigningKeyEq(ret.res.val, ret.sent.src)
          /\ SigningKeyToBytes(ret.res.val) = ret.input
          /\ Len(ret.input) = 1 + 2 * digest_size_in_bits * DigestBytes
          /\ ret.input = <<BoolByte(ret.sent.src.used)>>
                            \o ret.sent.src.zero_values.data
                            \o ret.sent.src.one_values.data
    /\ ret.op = "share_from_bytes" /\ ret.sent.op = "share_to_bytes"
         /\ ret.input = ret.sent.res.val
       => /\ ret.res.ok
          /\ SigningKeyShareEq(ret.res.val, ret.sent.src)
          /\ SigningKeyShareToBytes(ret.res.val) = ret.input
          /\ Len(ret.input) = 3 + 2 * digest_size_in_bits * DigestBytes
          /\ ret.input = <<ret.sent.src.identifier, ret.sent.src.threshold,
                           BoolByte(ret.sent.src.used)>>
                            \o ret.sent.src.zero_values.data
                            \o ret.sent.src.one_values.data

\* A used share of an unused key has made the round trip.
RoundTripCodecWitness ==
    /\ ret.op = "share_from_bytes"
    /\ ret.sent.op = "share_to_bytes"
    /\ ret.input = ret.sent.res.val
    /\ ret.sent.src.used
    /\ ~sk.used
    /\ ret.res.ok
    /\ ret.res.val = ret.sent.src

\* C8: the key decoder returns InvalidPrivateKeyBytes and no key for every
\* input whose length is not 1 + 2*B*Y; the share decoder returns
\* InvalidPrivateKeyBytes and no share for every input whose length is not
\* 3 + 2*B*Y, whose identifier byte is 0 or whose threshold byte is below 2.
DecoderRejection ==
    /\ ret.op = "key_from_bytes"
         /\ Len(ret.input) # 1 + 2 * digest_size_in_bits * DigestBytes
       => ret.res = Err("InvalidPrivateKeyBytes")
    /\ ret.op = "share_from_bytes"
         /\ \/ Len(ret.input) # 3 + 2 * digest_size_in_bits * DigestBytes
            \/ ret.input[1] = 0
            \/ ret.input[2] < 2
       => ret.res = Err("InvalidPrivateKeyBytes")

\* A share encoding of the right length with a good identifier and the
\* threshold byte 1 has been rejected.
DecoderRejectionWitness ==
    /\ ret.op = "share_from_bytes"
    /\ Len(ret.input) = 3 + 2 * digest_size_in_bits * DigestBytes
    /\ ret.input[1] # 0
    /\ ret.input[2] = 1
    /\ ret.res = Err("InvalidPrivateKeyBytes")

\* C9: a successful split(threshold, n) returns n shares with the
\* identifiers 1..n in order, each with that threshold, the matrix shapes
\* of the key and the used flag the key had.
SplitShape ==
    ret.op = "split" /\ ret.res.ok
        => /\ Len(ret.res.val) = ret.n
           /\ \A i \in 1..ret.n :
                /\ ret.res.val[i].identifier = i
                /\ ret.res.val[i].threshold = ret.threshold
                /\ ret.res.val[i].zero_values.axes = ret.key.zero_values.axes
                /\ ret.res.val[i].one_values.axes = ret.key.one_values.axes
                /\ MultiVecLen(ret.res.val[i].zero_values) = Product(ret.key.zero_values.axes)
                /\ MultiVecLen(ret.res.val[i].one_values) = Product(ret.key.one_values.axes)
                /\ ret.res.val[i].used = ret.key.used

\* A used key has been split into three shares with threshold two.
SplitShapeWitness ==
    /\ ret.op = "split"
    /\ ret.res.ok
    /\ ret.key.used
    /\ ret.n = 3
    /\ ret.threshold = 2
    /\ ret.res.val[3].identifier = 3

\* C10: of the sign calls tasks make on the one key, at most one returns a
\* signature, and none while used is false; every call that returned
\* without one saw used = true and returned PrivateKeyReuseError; once a
\* call has returned, one call has returned a signature.
SignLinearization ==
    /\ Cardinality({t \in Tasks : results[t].ok}) <= 1
    /\ \A t \in Tasks : results[t].ok => sk.used
    /\ \A t \in Tasks :
          pc[t] = "done" /\ ~results[t].ok
            => results[t].err = "PrivateKeyReuseError" /\ call[t].saw = TRUE
    /\ (\E t \in Tasks : pc[t] = "done") => (\E t \in Tasks : results[t].ok)

\* Every task has returned: one with a signature, the others refused.
SignLinearizationWitness ==
    /\ \A t \in Tasks : pc[t] = "done"
    /\ Cardinality({t \in Tasks : results[t].ok}) = 1
    /\ Cardinality({t \in Tasks : results[t].err = "PrivateKeyReuseError"}) = NumTasks - 1

\* C11: sign(m) of an unused share returns a signature share with the
\* share's identifier and threshold whose row i is row i of the share's own
\* Z when bit i of digest(m) is 0 and of its own O when it is 1, and leaves
\* the share used; sign of a used share, one that took the flag over from a
\* used key included, returns PrivateKeyReuseError.
ShareSignContent ==
    ret.op = "share_sign"
        => /\ ret.before.used => ret.res = Err("PrivateKeyReuseError")
           /\ shares[ret.i].used
           /\ ~ret.before.used
                => /\ ret.res.ok
                   /\ ret.res.val.identifier = ret.before.identifier
                   /\ ret.res.val.threshold = ret.before.threshold
                   /\ \A i \in 0..(digest_size_in_bits - 1) :
                         MultiVecRow(ret.res.val.data, i) =
                            IF VerifyBit(digest(ret.msg), i) = 0
                            THEN MultiVecRow(ret.before.zero_values, i)
                            ELSE MultiVecRow(ret.before.one_values, i)

\* A share of an unused key has signed a message, and its second sign call
\* has been refused.
ShareSignContentWitness ==
    /\ ret.op = "share_sign"
    /\ ~issued.src.used
    /\ ret.before.used
    /\ sigShares[ret.i] # None
    /\ sigShares[ret.i].msg # <<>>
    /\ sigShares[ret.i].share.identifier = ret.before.identifier
    /\ ret.res = Err("PrivateKeyReuseError")

\* The accesses two runs have made agree as far as both have got.
SameAccesses(t, u) ==
    \A k \in 1..Len(t) : k <= Len(u) => t[k] = u[k]

\* C12: two runs of sign on keys of the same shape make the same sequence
\* of reads of Z and O cells and of writes of signature cells, whatever the
\* contents of the keys and the bits of the digests; a whole run reads every
\* cell of Z and of O once, in flat order.
DataIndependentAccess ==
    /\ \A r, q \in Runs :
          acc[r] # None /\ acc[q] # None
            => SameAccesses(acc[r].trace, acc[q].trace)
    /\ \A r \in Runs :
          acc[r] # None /\ acc[r].done
            => /\ acc[r].trace = FlatAccesses(CellsPerMatrix)
               /\ acc[r].data = SignData(acc[r].key.zero_values,
                                         acc[r].key.one_values, acc[r].msg)

\* Two whole runs on keys that differ in Z and in O, with digests that
\* differ in a bit, have made the same accesses.
DataIndependentAccessWitness ==
    /\ \A r \in Runs : acc[r] # None /\ acc[r].done
    /\ acc["first"].key.zero_values # acc["second"].key.zero_values
    /\ acc["first"].key.one_values # acc["second"].key.one_values
    /\ \E i \in 0..(digest_size_in_bits - 1) :
          RowBit(acc["first"].data_hash, i) # RowBit(acc["second"].data_hash, i)
    /\ acc["first"].trace = acc["second"].trace
    /\ Len(acc["first"].trace) = 3 * CellsPerMatrix

\* C13: with h = digest(m), row 8*k + j (0 <= j <= 7) of the signature
\* sign(m) returns is row 8*k + j of Z when (h[k] >> j) & 1 is 0 and of O
\* when it is 1, and the signature has the shape [B, B/8].
SignatureContent ==
    ret.op = "sign" /\ ret.res.ok
        => /\ ret.res.val.data.axes =
                 <<digest_size_in_bits, digest_size_in_bits \div 8>>
           /\ MultiVecLen(ret.res.val.data) =
                 digest_size_in_bits * (digest_size_in_bits \div 8)
           /\ \A k \in 0..(Len(digest(ret.msg)) - 1), j \in 0..7 :
                 MultiVecRow(ret.res.val.data, 8 * k + j) =
                    IF (digest(ret.msg)[k + 1] \div (2 ^ j)) % 2 = 0
                    THEN MultiVecRow(ret.before.zero_values, 8 * k + j)
                    ELSE MultiVecRow(ret.before.one_values, 8 * k + j)

\* A signature of a message that is not empty holds a row of Z and a row
\* of O, each different from the row of the other matrix.
SignatureContentWitness ==
    /\ ret.op = "sign"
    /\ ret.res.ok
    /\ ret.msg # <<>>
    /\ \E i, l \in 0..(digest_size_in_bits - 1) :
          /\ MultiVecRow(ret.before.zero_values, i) # MultiVecRow(ret.before.one_values, i)
          /\ MultiVecRow(ret.before.zero_values, l) # MultiVecRow(ret.before.one_values, l)
          /\ MultiVecRow(ret.res.val.data, i) = MultiVecRow(ret.before.zero_values, i)
          /\ MultiVecRow(ret.res.val.data, l) = MultiVecRow(ret.before.one_values, l)

\* C14: whenever SigningKey::combine succeeds, the used flag of the key it
\* returns is true exactly when at least one of the shares passed in is
\* used.
CombineUsedIsOr ==
    ret.op = "combine" /\ ret.res.ok
        => (ret.res.val.used <=> \E j \in 1..Len(ret.args) : ret.args[j].used)

\* A key has been rebuilt from shares whose first is unused and of which
\* another is used, and it is used.
CombineUsedIsOrWitness ==
    /\ ret.op = "combine"
    /\ ret.res.ok
    /\ ~ret.args[1].used
    /\ \E j \in 1..Len(ret.args) : ret.args[j].used
    /\ ret.res.val.used

\* C15: split(threshold, n) returns an error and no shares whenever
\* 2 <= threshold <= n <= 255 does not hold, the error General whenever
\* n > 255, and leaves the key as it was.
SplitParameterCheck ==
    ret.op = "split"
      /\ ~(2 <= ret.threshold /\ ret.threshold <= ret.n /\ ret.n <= U8Max)
        => /\ ~ret.res.ok
           /\ ret.res.val = None
           /\ shares = <<>>
           /\ ret.n > U8Max => ret.res.err = "General"
           /\ sk = ret.key

\* A split into 256 shares with a threshold below two has been refused
\* with General.
SplitParameterCheckWitness ==
    /\ ret.op = "split"
    /\ ret.n = U8Max + 1
    /\ ret.threshold < 2
    /\ ret.res = Err("General")
    /\ sk = ret.key

\* C16 as claimed: two matrices are equal exactly when their buffers and
\* their shapes are equal, and cmp gives Equal exactly when they are equal.
OrderingAgreesWithEquality ==
    mret.op = "cmp"
        => /\ mret.eq <=> /\ mats["a"].data = mats["b"].data
                          /\ mats["a"].axes = mats["b"].axes
           /\ mret.ord = "Equal" <=> mret.eq
           /\ mret.partial = "Equal" <=> mret.eq

\* C17 as claimed: every matrix made by new, fill or fill_fn holds as many
\* elements as the product of its shape, and iso keeps that: it replaces
\* the shape and leaves the buffer when the products agree, and stops
\* otherwise.
SizeInvariant ==
    /\ \A s \in Slots :
          mats[s] # None => MultiVecLen(mats[s]) = Product(mats[s].axes)
    /\ mret.op = "iso"
          => IF Product(mret.before.axes) = Product(mret.axes)
             THEN /\ mret.res.ok
                  /\ mats[mret.slot].data = mret.before.data
                  /\ mats[mret.slot].axes = mret.axes
             ELSE /\ mret.res = Err("panic")
                  /\ mats[mret.slot] = mret.before

\* The call r made a key or a share from a value that was used: a clone,
\* a decoding of the value's own encoding, or a combination that succeeded
\* of shares of which one was used.
MadeFromUsed(r) ==
    \/ r.op \in {"clone", "share_clone"} /\ r.src.used
    \/ /\ r.op = "key_from_bytes"
       /\ r.sent.op = "key_to_bytes"
       /\ r.input = r.sent.res.val
       /\ r.sent.src.used
    \/ /\ r.op = "share_from_bytes"
       /\ r.sent.op = "share_to_bytes"
       /\ r.input = r.sent.res.val
       /\ r.sent.src.used
    \/ r.op = "combine" /\ r.res.ok /\ \E j \in 1..Len(r.args) : r.args[j].used

\* C18: a key or share that clone, to_bytes and from_bytes, split or
\* combine make from a used value is used, sign and the share's sign leave
\* their value used, and sign on a value made from a used one returns
\* PrivateKeyReuseError; the key random() makes is unused.
UsedPropagation ==
    /\ \A seed \in Seeds : ~SigningKeyRandom(seed).used
    /\ okSigns = 0 => ~sk.used
    /\ ret.op = "sign" => sk.used
    /\ ret.op = "share_sign" => shares[ret.i].used
    /\ ret.op = "split" /\ ret.res.ok /\ ret.key.used
          => \A i \in 1..Len(ret.res.val) : ret.res.val[i].used
    /\ MadeFromUsed(ret) => ret.res.ok /\ ret.res.val.used
    /\ ret.op \in {"derived_sign", "derived_share_sign"}
          => /\ ret.after.used
             /\ MadeFromUsed(ret.src) => ret.res = Err("PrivateKeyReuseError")

\* A share split from a used key has been encoded and decoded, and sign on
\* the decoded share has been refused.
UsedPropagationWitness ==
    /\ ret.op = "derived_share_sign"
    /\ ret.src.op = "share_from_bytes"
    /\ MadeFromUsed(ret.src)
    /\ issued.src.used
    /\ ret.res = Err("PrivateKeyReuseError")

\* C19: sign never changes Z and O of a key, nor Z, O, the identifier and
\* the threshold of a share; a call that succeeds changes used from false
\* to true and nothing else, and a call that returns PrivateKeyReuseError
\* leaves the key or the share as it was.
SignFrame ==
    /\ ret.op = "sign"
          => /\ sk.zero_values = ret.before.zero_values
             /\ sk.one_values = ret.before.one_values
             /\ ret.res.ok
                  => ~ret.before.used /\ sk = [ret.before EXCEPT !.used = TRUE]
             /\ ~ret.res.ok
                  => ret.res = Err("PrivateKeyReuseError") /\ sk = ret.before
    /\ ret.op = "share_sign"
          => /\ shares[ret.i].zero_values = ret.before.zero_values
             /\ shares[ret.i].one_values = ret.before.one_values
             /\ shares[ret.i].identifier = ret.before.identifier
             /\ shares[ret.i].threshold = ret.before.threshold
             /\ ret.res.ok
                  => /\ ~ret.before.used
                     /\ shares[ret.i] = [ret.before EXCEPT !.used = TRUE]
             /\ ~ret.res.ok
                  => /\ ret.res = Err("PrivateKeyReuseError")
                     /\ shares[ret.i] = ret.before

\* A key has signed a message that is not empty and differs from what it
\* was in its used flag alone.
SignFrameWitness ==
    /\ ret.op = "sign"
    /\ ret.res.ok
    /\ ret.msg # <<>>
    /\ ~ret.before.used
    /\ sk # ret.before
    /\ sk = [ret.before EXCEPT !.used = TRUE]

====
